---- MODULE Spec2Model ----
(***************************************************************************)
(* Model of the checkpointing scraper src/tests/test-doj.spec.ts: the      *)
(* link file and the progress file, one scraping session after another,   *)
(* the per-page fetchWithRetry ladder and the batch loop with its periodic *)
(* and final checkpoints.  The append-based scraper                        *)
(* src/tests/doj-pdf-scraper.spec.ts, with its abort handler and its set   *)
(* of failed pages, is modelled by SpecAppend on variables of its own.     *)
(* SpecRetry, SpecBatch and SpecListing take one fetchWithRetry call, one  *)
(* batch and one session against a fixed listing on their own; SpecSession *)
(* and SpecAppendLoop are the two loops under fairness.                    *)
(***************************************************************************)
EXTENDS Integers, Sequences, FiniteSets, TLC

VARIABLES
  CONCURRENCY,        \* batch width (test-doj.spec.ts:9), fixed for a behaviour
  progressFile,       \* pdf-links.progress.json: Absent or a ProgressState
  linkFile,           \* pdf-links.txt: Absent or its contents split on '\n'
  pc,                 \* position of the test body
  envStartPage,       \* parsed START_PAGE override, Null when not given
  uniqueLinks,        \* Set of admitted URLs
  allLinks,           \* admitted URLs in admission order
  startPage,
  start,              \* loop cursor of the batch loop
  lastProcessedPage,
  blockedCount,
  emptyPagesInARow,
  batchCount,
  shouldStop,
  batchPages,         \* page numbers of the batch in flight / last dispatched
  fetches,            \* per page of the batch: the fetchWithRetry call in flight
  firstRequested,     \* page of the initial page.goto of the session
  stopReason,         \* which exit of the loop was taken
  fullBlockRun,       \* history: fully blocked batches in a row
  arrivals,           \* history: pages of the batch in the order they settled
  site,               \* the listing the server serves: per page its hrefs, if fixed
  skipped,            \* history: pages the aggregation loop has skipped as blocked
  call                \* a single fetchWithRetry call observed attempt by attempt

(* doj-pdf-scraper.spec.ts *)
VARIABLES
  outputFile,         \* pdf-links.txt as the append-based scraper sees it: its lines
  failedPagesFile,    \* failed-pages.txt: Absent or the page numbers of its lines
  summaryFile,        \* run-summary.txt: Null or the status of the summary in it
  apc,                \* position of the test body
  existingLinkSet,    \* existingLinks, the Set of the lines of the file and of the appended links
  failedPages,
  lastCompletedPage,
  currentPage,
  consecutiveEmptyPages,
  completed,
  allPromises,        \* per page of the batch in flight: pending or its result
  resultsLeft,        \* of the sorted batchResults, those the loop has still to take
  allEmpty,
  newLinks,           \* the lines of the fs.appendFile under way
  handlers,           \* the abortHandler invocations under way, each at its await
  summaries,          \* history: the status of every saveSummary call of the run
  loadedFailed,       \* history: the failed pages loaded at startup
  lastOutcome         \* history: outcome of every page aggregated in the run

appendVars == <<outputFile, failedPagesFile, summaryFile, apc, existingLinkSet,
                failedPages, lastCompletedPage, currentPage, consecutiveEmptyPages,
                completed, allPromises, resultsLeft, allEmpty, newLinks, handlers,
                summaries, loadedFailed, lastOutcome>>

vars == <<CONCURRENCY, progressFile, linkFile, pc, envStartPage, uniqueLinks,
          allLinks, startPage, start, lastProcessedPage, blockedCount,
          emptyPagesInARow, batchCount, shouldStop, batchPages, fetches,
          firstRequested, stopReason, fullBlockRun, arrivals,
          site, skipped, call, appendVars>>

sessionVars == <<CONCURRENCY, progressFile, linkFile, pc, envStartPage,
                 uniqueLinks, allLinks, startPage, start, lastProcessedPage,
                 blockedCount, emptyPagesInARow, batchCount, shouldStop,
                 batchPages, fetches, firstRequested, stopReason, fullBlockRun,
                 arrivals, site, skipped>>

----------------------------------------------------------------------------
(* Bounds of the model.  The first four scale down constants of the       *)
(* source (1000000003, 30, 50 and 5).                                      *)
MAX_PAGE == 3
EMPTY_PAGES_BEFORE_STOP == 2
CHECKPOINT_INTERVAL == 2
MAX_RETRIES == 1
MaxConcurrency == 2
MaxRetriesArg == 2

MAX_BLOCKED_BEFORE_STOP == 3

RETRY_BASE_DELAY_MS == 2000
BLOCKED_BACKOFF_MS == 30000

(* An optional value (null, a missing file) is the empty set, a present   *)
(* one the singleton of its value.                                         *)
Null == {}
Absent == {}
Some(v) == {v}
TheValue(o) == CHOOSE v \in o : TRUE

InvalidURL == "TypeError: Invalid URL"

----------------------------------------------------------------------------
(* Generic helpers *)

Range(s) == {s[i] : i \in 1..Len(s)}

NoDup(s) == \A i, j \in 1..Len(s) : s[i] = s[j] => i = j

Max(a, b) == IF a >= b THEN a ELSE b

----------------------------------------------------------------------------
(* The link file: readExistingLinks / writeLinks *)

UrlA == "https://www.justice.gov/a.pdf"
UrlB == "https://www.justice.gov/epstein/doj-disclosures/b.pdf"

(* String.prototype.trim on the lines the model's files contain *)
Trim(line) ==
  CASE line = " https://www.justice.gov/a.pdf " -> UrlA
    [] line = "  " -> ""
    [] OTHER -> line

RECURSIVE Dedupe(_, _, _)
Dedupe(lines, seen, deduped) ==
  IF lines = <<>> THEN deduped
  ELSE IF Head(lines) \notin seen
       THEN Dedupe(Tail(lines), seen \cup {Head(lines)}, Append(deduped, Head(lines)))
       ELSE Dedupe(Tail(lines), seen, deduped)

TrimAll(lines) == [i \in 1..Len(lines) |-> Trim(lines[i])]

(* Variant: the empty lines of the file are kept *)
readExistingLinks_KeepEmpty(file) ==
  IF file = Absent THEN <<>>
  ELSE Dedupe(TrimAll(TheValue(file)), {}, <<>>)

readExistingLinks(file) ==
  IF file = Absent THEN <<>>
  ELSE Dedupe(SelectSeq(TrimAll(TheValue(file)), LAMBDA l : l # ""), {}, <<>>)

(* The file's text split on '\n': join('\n') plus the trailing newline   *)
(* leaves one empty last element; the empty output is the empty text.     *)
writeLinks(links) ==
  IF Len(links) > 0 THEN Some(links \o <<"">>) ELSE Some(<<"">>)

(* A link file left by the append-based scraper or edited by hand *)
ForeignLinkFile == <<UrlA, " https://www.justice.gov/a.pdf ", "  ", UrlA, "">>

----------------------------------------------------------------------------
(* The progress file: readProgress / writeProgress *)

(* The text of a progress file whose write was cut short: JSON.parse      *)
(* throws on it.                                                           *)
TruncatedJson == [truncated |-> TRUE]

(* ENOENT and a text that does not parse both give null (lines 68-75) *)
readProgress(file) ==
  IF file = Absent THEN Null
  ELSE IF TheValue(file) = TruncatedJson THEN Null
  ELSE file

writeProgress(state) == Some(state)

----------------------------------------------------------------------------
(* START_PAGE of the environment and its parsing (line 161) *)

Numerals == <<"0", "1", "2", "3", "4", "5", "6">>

ParseInt(text) == CHOOSE n \in 0..(Len(Numerals) - 1) : Numerals[n + 1] = text

EnvValues == {Null, Some("")} \cup {Some(Numerals[n + 1]) : n \in 0..MAX_PAGE}

EnvStartPage(env) ==
  IF env # Null /\ TheValue(env) # "" THEN Some(ParseInt(TheValue(env))) ELSE Null

(* Variant: without a progress record the resume page defaults to 0 *)
ResumePage_Zero(existingProgress) ==
  IF existingProgress # Null THEN TheValue(existingProgress).lastProcessedPage ELSE 0

ResumePage(existingProgress) ==
  IF existingProgress # Null THEN TheValue(existingProgress).lastProcessedPage ELSE -1

(* Variant: the larger of the override and the resume point *)
StartPage_Max(env, existingProgress) ==
  IF EnvStartPage(env) # Null
  THEN Max(TheValue(EnvStartPage(env)), ResumePage(existingProgress) + 1)
  ELSE ResumePage(existingProgress) + 1

(* Variant: the last processed page is scraped again *)
StartPage_NoStep(env, existingProgress) ==
  IF EnvStartPage(env) # Null THEN TheValue(EnvStartPage(env))
  ELSE Max(ResumePage(existingProgress), 0)

StartPage(env, existingProgress) ==
  IF EnvStartPage(env) # Null THEN TheValue(EnvStartPage(env))
  ELSE ResumePage(existingProgress) + 1

----------------------------------------------------------------------------
(* Responses of request.get and their classification *)

Markers == {"Access Denied", "don't have permission", "Reference #",
            "errors.edgesuite.net"}

(* A body is what the code looks at: the denial markers it includes and   *)
(* the values matched by /href="([^"]+\.pdf)"/gi, in document order.       *)
Html(markers, hrefs) == [markers |-> markers, hrefs |-> hrefs]

NoHtml == Html({}, <<>>)

(* Variant: the edge-network reference marker is not looked for *)
isBlockedResponse_NoReference(html) ==
  \/ "Access Denied" \in html.markers
  \/ "don't have permission" \in html.markers
  \/ "errors.edgesuite.net" \in html.markers

isBlockedResponse(html) ==
  \/ "Access Denied" \in html.markers
  \/ "don't have permission" \in html.markers
  \/ "Reference #" \in html.markers
  \/ "errors.edgesuite.net" \in html.markers

Response(status, html) == [threw |-> FALSE, status |-> status, html |-> html]

(* request.get or response.text rejecting *)
TransportException == [threw |-> TRUE, status |-> 0, html |-> NoHtml]

(* Variant: only status 200 counts as OK *)
ResponseOk_Only200(response) == response.status = 200

ResponseOk(response) == response.status >= 200 /\ response.status <= 299

(* FetchResult (lines 84-88) *)
FetchResult(status, html) == [status |-> status, html |-> html]

Pending == FetchResult("pending", NoHtml)

(* One pass of the loop body of fetchWithRetry: the result returned, or   *)
(* the sleep taken before the next attempt.                                *)
FetchAttempt(attempt, retries, response) ==
  IF response.threw
  THEN IF attempt < retries
       THEN [done |-> FALSE, result |-> Pending, ladder |-> "error",
             delay |-> RETRY_BASE_DELAY_MS * (2 ^ attempt)]
       ELSE [done |-> TRUE, result |-> FetchResult("error", NoHtml),
             ladder |-> "error", delay |-> 0]
  ELSE IF isBlockedResponse(response.html)
  THEN IF attempt < retries
       THEN [done |-> FALSE, result |-> Pending, ladder |-> "blocked",
             delay |-> BLOCKED_BACKOFF_MS * (attempt + 1)]
       ELSE [done |-> TRUE, result |-> FetchResult("blocked", NoHtml),
             ladder |-> "blocked", delay |-> 0]
  ELSE IF ResponseOk(response)
  THEN [done |-> TRUE, result |-> FetchResult("ok", response.html),
        ladder |-> "ok", delay |-> 0]
  ELSE IF (response.status = 403 \/ response.status = 429 \/ response.status >= 500)
          /\ attempt < retries
  THEN [done |-> FALSE, result |-> Pending, ladder |-> "error",
        delay |-> RETRY_BASE_DELAY_MS * (2 ^ attempt)]
  ELSE [done |-> TRUE, result |-> FetchResult("error", NoHtml),
        ladder |-> "error", delay |-> 0]

(* Variant: a blocked attempt is retried without using up the budget *)
NextAttempt_BlockedFree(attempt, step) ==
  IF step.ladder = "blocked" THEN attempt ELSE attempt + 1

(* attempt++ of the for statement, reached by every continue *)
NextAttempt(attempt, step) == attempt + 1

(* What the call has returned after the pass: the pass's own return, the  *)
(* fall-through return of line 145 when the loop test fails, or nothing.   *)
FetchReturn(attempt, retries, step) ==
  IF step.done THEN step.result
  ELSE IF NextAttempt(attempt, step) <= retries THEN Pending
  ELSE FetchResult("error", NoHtml)

----------------------------------------------------------------------------
(* URLs: new URL(href, BASE_URL).toString() on the hrefs of the model *)

ResolveUrl(href) ==
  CASE href = "/a.pdf" -> UrlA
    [] href = "https://www.justice.gov/a.pdf" -> UrlA
    [] href = "b.pdf" -> UrlB
    [] href = "http://[.pdf" -> InvalidURL
    [] OTHER -> href

(* The listing pages the server of the model serves *)
HrefLists == {<<>>,
              <<"/a.pdf">>,
              <<"https://www.justice.gov/a.pdf", "b.pdf">>,
              <<"b.pdf", "http://[.pdf">>}

(* Responses a page request of a session can get *)
SessionResponses ==
  {TransportException}
    \cup {Response(200, Html({}, h)) : h \in HrefLists}
    \cup {Response(200, Html({"Access Denied"}, <<>>)),
          Response(500, NoHtml),
          Response(404, NoHtml)}

----------------------------------------------------------------------------
(* The batch loop of the test body (lines 217-314) *)

(* Variant: the cursor is not taken back before a blocked batch is retried *)
NextStart_NoRewind(at, width, retryBatch) == at + width

(* The cursor at the next loop test: start += CONCURRENCY of the for      *)
(* statement, after start -= CONCURRENCY when the batch is to be retried   *)
(* (line 250).                                                             *)
NextStart(at, width, retryBatch) ==
  IF retryBatch THEN (at - width) + width ELSE at + width

(* Variant: the pages above MAX_PAGE are not filtered out *)
BatchPages_NoCeiling(from, width) == [index \in 1..width |-> from + (index - 1)]

(* Array.from({length: CONCURRENCY}, (_, index) => start + index)          *)
(*   .filter(pageNumber => pageNumber <= MAX_PAGE)                         *)
BatchPages(from, width) ==
  SelectSeq([index \in 1..width |-> from + (index - 1)], LAMBDA pageNumber : pageNumber <= MAX_PAGE)

(* The value each promise of the batch resolves to (lines 223-230) *)
PageResult(pageNumber, result) ==
  IF result.status = "ok"
  THEN [pageNumber |-> pageNumber, hrefs |-> result.html.hrefs, blocked |-> FALSE]
  ELSE [pageNumber |-> pageNumber, hrefs |-> <<>>, blocked |-> result.status = "blocked"]

(* Promise.all keeps the order of batchPages *)
BatchResults(pages, fetchOf) ==
  [i \in 1..Len(pages) |-> PageResult(pages[i], fetchOf[pages[i]].result)]

RECURSIVE InsertByPage(_, _)
InsertByPage(sorted, r) ==
  IF sorted = <<>> THEN <<r>>
  ELSE IF r.pageNumber < Head(sorted).pageNumber THEN <<r>> \o sorted
  ELSE <<Head(sorted)>> \o InsertByPage(Tail(sorted), r)

RECURSIVE SortByPage(_)
SortByPage(results) ==
  IF results = <<>> THEN <<>>
  ELSE InsertByPage(SortByPage(Tail(results)), Head(results))

(* Variant: the results are taken as the fetches settle, and not sorted *)
SortedResults_AsSettled(pages, fetchOf) ==
  [i \in 1..Len(arrivals) |-> PageResult(arrivals[i], fetchOf[arrivals[i]].result)]

(* Lines 222-233: the results Promise.all resolves to, sorted by page *)
SortedResults(pages, fetchOf) == SortByPage(BatchResults(pages, fetchOf))

BlockedInBatch(results) == Len(SelectSeq(results, LAMBDA r : r.blocked))

(* Variant: a new URL is put at the front of the list *)
Admit_AtFront(acc, absoluteUrl) ==
  IF absoluteUrl \notin acc.uniqueLinks
  THEN [acc EXCEPT !.uniqueLinks = @ \cup {absoluteUrl},
                   !.allLinks = <<absoluteUrl>> \o @]
  ELSE acc

(* Variant: no membership test before the push *)
Admit_NoTest(acc, absoluteUrl) ==
  [acc EXCEPT !.uniqueLinks = @ \cup {absoluteUrl},
              !.allLinks = Append(@, absoluteUrl)]

(* Lines 289-293: admission of one absolute URL *)
Admit(acc, absoluteUrl) ==
  IF absoluteUrl \notin acc.uniqueLinks
  THEN [acc EXCEPT !.uniqueLinks = @ \cup {absoluteUrl},
                   !.allLinks = Append(@, absoluteUrl)]
  ELSE acc

(* Lines 287-294: new URL throws on a malformed href, which ends the loop *)
RECURSIVE AdmitHrefs(_, _)
AdmitHrefs(hrefs, acc) ==
  IF hrefs = <<>> THEN acc
  ELSE IF ResolveUrl(Head(hrefs)) = InvalidURL THEN [acc EXCEPT !.threw = TRUE]
  ELSE AdmitHrefs(Tail(hrefs), Admit(acc, ResolveUrl(Head(hrefs))))

(* Variant: only a page with links becomes the last processed page *)
SetLastProcessed_LinkedOnly(acc, result) ==
  IF Len(result.hrefs) = 0 THEN acc
  ELSE [acc EXCEPT !.lastProcessedPage = result.pageNumber]

(* Line 264, for every result that is not blocked *)
SetLastProcessed(acc, result) ==
  [acc EXCEPT !.lastProcessedPage = result.pageNumber]

(* Lines 259-299: the results of one batch, in the order given *)
RECURSIVE ProcessResults(_, _)
ProcessResults(results, acc) ==
  IF results = <<>> THEN acc
  ELSE
    LET result == Head(results) IN
    IF result.blocked THEN ProcessResults(Tail(results), acc)
    ELSE
      LET seen == SetLastProcessed(acc, result) IN
      IF Len(result.hrefs) = 0
      THEN LET counted == [seen EXCEPT !.emptyPagesInARow = @ + 1] IN
           IF counted.emptyPagesInARow >= EMPTY_PAGES_BEFORE_STOP
           THEN [counted EXCEPT !.shouldStop = TRUE]
           ELSE ProcessResults(Tail(results), counted)
      ELSE LET admitted == AdmitHrefs(result.hrefs, [seen EXCEPT !.emptyPagesInARow = 0]) IN
           IF admitted.threw THEN admitted
           ELSE ProcessResults(Tail(results), admitted)

(* The pages the loop has passed over at line 261: the blocked results of  *)
(* a batch that is not fully blocked, up to the point the loop ended at.   *)
SkippedPages(results, acc) ==
  IF BlockedInBatch(results) = Len(results) THEN {}
  ELSE {results[i].pageNumber : i \in {j \in 1..Len(results) :
          /\ results[j].blocked
          /\ (acc.shouldStop \/ acc.threw) => results[j].pageNumber < acc.lastProcessedPage}}

(* Variant: the checkpoint comes one batch late *)
CheckpointDue_OneLate(count) == count % (CHECKPOINT_INTERVAL + 1) = 0

(* Line 304: batchCount % CHECKPOINT_INTERVAL === 0 *)
CheckpointDue(count) == count % CHECKPOINT_INTERVAL = 0

Memory ==
  [uniqueLinks |-> uniqueLinks, allLinks |-> allLinks,
   lastProcessedPage |-> lastProcessedPage, emptyPagesInARow |-> emptyPagesInARow,
   shouldStop |-> shouldStop, threw |-> FALSE]

----------------------------------------------------------------------------
(* State of a process that is not running *)

NoCall == [retries |-> 0, attempt |-> 0, log |-> <<>>, result |-> Pending]

NoFetches == [p \in {} |-> [attempt |-> 0, result |-> Pending]]

FreshMemory ==
  /\ envStartPage = Null
  /\ uniqueLinks = {}
  /\ allLinks = <<>>
  /\ startPage = 0
  /\ start = 0
  /\ lastProcessedPage = -1
  /\ blockedCount = 0
  /\ emptyPagesInARow = 0
  /\ batchCount = 0
  /\ shouldStop = FALSE
  /\ batchPages = <<>>
  /\ fetches = NoFetches
  /\ firstRequested = Null
  /\ stopReason = ""
  /\ fullBlockRun = 0
  /\ arrivals = <<>>
  /\ skipped = {}

(* No listing fixed: every response is drawn freely *)
NoSite == [p \in {} |-> <<>>]

NoPromises == [p \in {} |-> [settled |-> FALSE, hrefs |-> <<>>, error |-> FALSE]]

NoOutcomes == [p \in {} |-> "ok"]

(* The append-based scraper is not running and has left no file *)
AppendIdle ==
  /\ outputFile = <<>>
  /\ failedPagesFile = Absent
  /\ summaryFile = Null
  /\ apc = "start"
  /\ existingLinkSet = {}
  /\ failedPages = {}
  /\ lastCompletedPage = 0
  /\ currentPage = 0
  /\ consecutiveEmptyPages = 0
  /\ completed = FALSE
  /\ allPromises = NoPromises
  /\ resultsLeft = <<>>
  /\ allEmpty = TRUE
  /\ newLinks = <<>>
  /\ handlers = <<>>
  /\ summaries = <<>>
  /\ loadedFailed = {}
  /\ lastOutcome = NoOutcomes

Init ==
  /\ CONCURRENCY \in 1..MaxConcurrency
  /\ progressFile = Absent
  /\ linkFile \in {Absent, Some(ForeignLinkFile)}
  /\ pc = "idle"
  /\ FreshMemory
  /\ site = NoSite
  /\ call = NoCall
  /\ AppendIdle

RunningPcs == {"goto", "fetching", "blockedSleep", "delay", "ckptProgress",
               "ckptLinks", "finalProgress", "finalLinks"}

TerminalPcs == {"done", "killed", "failed"}

(* Lines 217-222: the loop test and, when it passes, the dispatch of the   *)
(* batch at the cursor; when it fails, the final save begins.              *)
LoopEntry(from, stop, reason) ==
  /\ start' = from
  /\ IF from <= MAX_PAGE /\ ~stop
     THEN /\ batchPages' = BatchPages(from, CONCURRENCY)
          /\ fetches' = [p \in Range(BatchPages(from, CONCURRENCY)) |->
                           [attempt |-> 0, result |-> Pending]]
          /\ pc' = "fetching"
          /\ stopReason' = reason
     ELSE /\ UNCHANGED batchPages
          /\ fetches' = NoFetches
          /\ pc' = "finalProgress"
          /\ stopReason' = IF stop THEN reason ELSE "COMPLETED"

(* Lines 154-173: load the two files, choose the start page, open it *)
Load ==
  /\ pc = "idle"
  /\ \E env \in EnvValues :
       LET existingProgress == readProgress(progressFile)
           existingLinks == readExistingLinks(linkFile)
       IN /\ uniqueLinks' = Range(existingLinks)
          /\ allLinks' = existingLinks
          /\ envStartPage' = EnvStartPage(env)
          /\ startPage' = StartPage(env, existingProgress)
          /\ firstRequested' = Some(StartPage(env, existingProgress))
          /\ lastProcessedPage' = StartPage(env, existingProgress) - 1
          /\ start' = StartPage(env, existingProgress)
  /\ pc' = "goto"
  /\ UNCHANGED <<CONCURRENCY, progressFile, linkFile, blockedCount, emptyPagesInARow,
                 batchCount, shouldStop, batchPages, fetches, stopReason,
                 fullBlockRun, arrivals, call, site, skipped, appendVars>>

(* Line 217, first iteration *)
Enter ==
  /\ pc = "goto"
  /\ LoopEntry(startPage, shouldStop, stopReason)
  /\ UNCHANGED <<CONCURRENCY, progressFile, linkFile, envStartPage, uniqueLinks,
                 allLinks, startPage, lastProcessedPage, blockedCount,
                 emptyPagesInARow, batchCount, shouldStop, firstRequested,
                 fullBlockRun, arrivals, call, site, skipped, appendVars>>

(* One request of one fetchWithRetry call of the batch (lines 104-144) *)
AttemptStep(p, response) ==
  /\ pc = "fetching"
  /\ p \in DOMAIN fetches
  /\ fetches[p].result.status = "pending"
  /\ fetches[p].attempt <= MAX_RETRIES
  /\ LET step == FetchAttempt(fetches[p].attempt, MAX_RETRIES, response)
         returned == FetchReturn(fetches[p].attempt, MAX_RETRIES, step)
     IN fetches' = [fetches EXCEPT ![p] =
                      IF returned.status # "pending"
                      THEN [attempt |-> 0, result |-> returned]
                      ELSE [attempt |-> NextAttempt(@.attempt, step), result |-> Pending]]

Attempt(p, response) ==
  /\ AttemptStep(p, response)
  /\ UNCHANGED <<CONCURRENCY, progressFile, linkFile, pc, envStartPage, uniqueLinks,
                 allLinks, startPage, start, lastProcessedPage, blockedCount,
                 emptyPagesInARow, batchCount, shouldStop, batchPages,
                 firstRequested, stopReason, fullBlockRun, arrivals,
                 call, site, skipped, appendVars>>

(* Lines 233-308: everything between Promise.all and the next await *)
AggregateStep ==
  /\ pc = "fetching"
  /\ \A p \in DOMAIN fetches : fetches[p].result.status # "pending"
  /\ LET batchResults == SortedResults(batchPages, fetches)
         blockedInBatch == BlockedInBatch(batchResults)
     IN IF blockedInBatch = Len(batchResults)
        THEN /\ blockedCount' = blockedCount + 1
             /\ fullBlockRun' = fullBlockRun + 1
             /\ IF blockedCount + 1 >= MAX_BLOCKED_BEFORE_STOP
                THEN /\ shouldStop' = TRUE
                     /\ stopReason' = "STOPPED_BLOCKED"
                     /\ pc' = "finalProgress"
                ELSE /\ pc' = "blockedSleep"
                     /\ UNCHANGED <<shouldStop, stopReason>>
             /\ UNCHANGED <<uniqueLinks, allLinks, lastProcessedPage,
                            emptyPagesInARow, batchCount, start>>
        ELSE LET acc == ProcessResults(batchResults, Memory) IN
             /\ blockedCount' = IF blockedInBatch = 0 THEN 0 ELSE blockedCount
             /\ fullBlockRun' = 0
             /\ uniqueLinks' = acc.uniqueLinks
             /\ allLinks' = acc.allLinks
             /\ lastProcessedPage' = acc.lastProcessedPage
             /\ emptyPagesInARow' = acc.emptyPagesInARow
             /\ shouldStop' = acc.shouldStop
             /\ stopReason' = IF acc.shouldStop THEN "STOPPED_EMPTY" ELSE stopReason
             /\ IF acc.threw
                THEN /\ pc' = "failed"
                     /\ UNCHANGED <<batchCount, start>>
                ELSE /\ batchCount' = batchCount + 1
                     /\ IF CheckpointDue(batchCount + 1)
                        THEN pc' = "ckptProgress" /\ UNCHANGED start
                        ELSE IF ~acc.shouldStop
                        THEN pc' = "delay" /\ UNCHANGED start
                        ELSE /\ pc' = "finalProgress"
                             /\ start' = NextStart(start, CONCURRENCY, FALSE)
  /\ fetches' = NoFetches
  /\ UNCHANGED <<CONCURRENCY, progressFile, linkFile, envStartPage, startPage,
                 batchPages, firstRequested, arrivals, call, site, appendVars>>

Aggregate == AggregateStep /\ UNCHANGED skipped

(* saveCheckpoint, first write (lines 203-208) *)
WriteProgress ==
  /\ pc \in {"ckptProgress", "finalProgress"}
  /\ progressFile' = writeProgress([lastProcessedPage |-> lastProcessedPage,
                                    totalLinksFound |-> Cardinality(uniqueLinks)])
  /\ pc' = IF pc = "ckptProgress" THEN "ckptLinks" ELSE "finalLinks"
  /\ UNCHANGED <<CONCURRENCY, linkFile, envStartPage, uniqueLinks, allLinks,
                 startPage, start, lastProcessedPage, blockedCount,
                 emptyPagesInARow, batchCount, shouldStop, batchPages, fetches,
                 firstRequested, stopReason, fullBlockRun, arrivals,
                 call, site, skipped, appendVars>>

(* saveCheckpoint, second write (line 209), and what follows it: the      *)
(* batch delay or the loop exit after a periodic checkpoint (lines        *)
(* 310-314), the end of the test after the final one.                      *)
WriteLinks ==
  /\ pc \in {"ckptLinks", "finalLinks"}
  /\ linkFile' = writeLinks(allLinks)
  /\ IF pc = "finalLinks" THEN pc' = "done" /\ UNCHANGED start
     ELSE IF ~shouldStop THEN pc' = "delay" /\ UNCHANGED start
     ELSE pc' = "finalProgress" /\ start' = NextStart(start, CONCURRENCY, FALSE)
  /\ UNCHANGED <<CONCURRENCY, progressFile, envStartPage, uniqueLinks, allLinks,
                 startPage, lastProcessedPage, blockedCount, emptyPagesInARow,
                 batchCount, shouldStop, batchPages, fetches, firstRequested,
                 stopReason, fullBlockRun, arrivals, call, site, skipped, appendVars>>

(* The end of a sleep: the blocked batch is retried (lines 249-251), or   *)
(* the cursor moves on (lines 312, 217).                                   *)
Wake ==
  /\ pc \in {"blockedSleep", "delay"}
  /\ LoopEntry(NextStart(start, CONCURRENCY, pc = "blockedSleep"), shouldStop, stopReason)
  /\ UNCHANGED <<CONCURRENCY, progressFile, linkFile, envStartPage, uniqueLinks,
                 allLinks, startPage, lastProcessedPage, blockedCount,
                 emptyPagesInARow, batchCount, shouldStop, firstRequested,
                 fullBlockRun, arrivals, call, site, skipped, appendVars>>

(* SIGINT / SIGTERM: the test installs no handler, the process ends.  Of *)
(* its memory the state keeps what the session had accumulated, to compare *)
(* with the files it leaves behind.                                        *)
Interrupt ==
  /\ pc \in RunningPcs
  /\ pc' = "killed"
  /\ start' = 0
  /\ blockedCount' = 0
  /\ emptyPagesInARow' = 0
  /\ batchCount' = 0
  /\ shouldStop' = FALSE
  /\ batchPages' = <<>>
  /\ fetches' = NoFetches
  /\ stopReason' = ""
  /\ fullBlockRun' = 0
  /\ arrivals' = <<>>
  /\ UNCHANGED <<CONCURRENCY, progressFile, linkFile, envStartPage, uniqueLinks,
                 allLinks, startPage, lastProcessedPage, firstRequested,
                 call, site, skipped, appendVars>>

(* The process ends while fs.writeFile of a checkpoint is under way: the   *)
(* file has been opened for writing, which empties it, and holds the part  *)
(* of the new text written so far.  Of the link file the model takes the   *)
(* cuts at a line end.                                                     *)
InterruptedWrite ==
  /\ pc \in {"ckptProgress", "finalProgress", "ckptLinks", "finalLinks"}
  /\ IF pc \in {"ckptProgress", "finalProgress"}
     THEN /\ progressFile' = Some(TruncatedJson)
          /\ UNCHANGED linkFile
     ELSE /\ \E written \in 0..(Len(allLinks) - 1) :
               linkFile' = Some(SubSeq(allLinks, 1, written) \o <<"">>)
          /\ UNCHANGED progressFile
  /\ pc' = "killed"
  /\ start' = 0
  /\ blockedCount' = 0
  /\ emptyPagesInARow' = 0
  /\ batchCount' = 0
  /\ shouldStop' = FALSE
  /\ batchPages' = <<>>
  /\ fetches' = NoFetches
  /\ stopReason' = ""
  /\ fullBlockRun' = 0
  /\ arrivals' = <<>>
  /\ UNCHANGED <<CONCURRENCY, envStartPage, uniqueLinks, allLinks, startPage,
                 lastProcessedPage, firstRequested, call, site, skipped, appendVars>>

(* The next run of the test: a new process, the files as they were left *)
Restart ==
  /\ pc \in TerminalPcs
  /\ pc' = "idle"
  /\ envStartPage' = Null
  /\ uniqueLinks' = {}
  /\ allLinks' = <<>>
  /\ startPage' = 0
  /\ start' = 0
  /\ lastProcessedPage' = -1
  /\ blockedCount' = 0
  /\ emptyPagesInARow' = 0
  /\ batchCount' = 0
  /\ shouldStop' = FALSE
  /\ batchPages' = <<>>
  /\ fetches' = NoFetches
  /\ firstRequested' = Null
  /\ stopReason' = ""
  /\ fullBlockRun' = 0
  /\ arrivals' = <<>>
  /\ UNCHANGED <<CONCURRENCY, progressFile, linkFile, call, site, skipped, appendVars>>

Next ==
  \/ Load
  \/ Enter
  \/ \E p \in 0..MAX_PAGE, response \in SessionResponses : Attempt(p, response)
  \/ Aggregate
  \/ WriteProgress
  \/ WriteLinks
  \/ Wake
  \/ Interrupt
  \/ InterruptedWrite
  \/ Restart

Spec == Init /\ [][Next]_vars

(* One session left to run: no signal; every request is answered and every *)
(* step that can be taken is taken in the end.                             *)
NextSession ==
  \/ Load
  \/ Enter
  \/ \E p \in 0..MAX_PAGE, response \in SessionResponses : Attempt(p, response)
  \/ Aggregate
  \/ WriteProgress
  \/ WriteLinks
  \/ Wake

SpecSession == Init /\ [][NextSession]_vars /\ WF_vars(NextSession)

----------------------------------------------------------------------------
(* fetchWithRetry on its own: one call, its retry budget and the response  *)
(* of every request drawn freely.                                          *)

Statuses == {200, 204, 403, 404, 429, 500}

Responses ==
  {TransportException}
    \cup {Response(st, Html({}, <<>>)) : st \in Statuses}
    \cup {Response(st, Html({m}, <<>>)) : st \in Statuses, m \in Markers}

InitRetry ==
  /\ CONCURRENCY = 1
  /\ progressFile = Absent
  /\ linkFile = Absent
  /\ pc = "idle"
  /\ FreshMemory
  /\ site = NoSite
  /\ call \in {[retries |-> r, attempt |-> 0, log |-> <<>>, result |-> Pending] :
                 r \in 0..MaxRetriesArg}
  /\ AppendIdle

(* One request of the call (lines 104-144): call.log keeps each response   *)
(* with the ladder it was put on and the sleep that followed.              *)
Request(response) ==
  /\ call.result.status = "pending"
  /\ call.attempt <= call.retries
  /\ LET step == FetchAttempt(call.attempt, call.retries, response)
         returned == FetchReturn(call.attempt, call.retries, step)
     IN call' = [retries |-> call.retries,
                 attempt |-> IF returned.status # "pending" THEN call.attempt
                             ELSE NextAttempt(call.attempt, step),
                 log |-> Append(call.log, [response |-> response,
                                           ladder |-> step.ladder,
                                           delay |-> step.delay]),
                 result |-> returned]
  /\ UNCHANGED <<sessionVars, appendVars>>

NextRetry == \E response \in Responses : Request(response)

SpecRetry == InitRetry /\ [][NextRetry]_vars

----------------------------------------------------------------------------
(* One batch on its own: a session started at START_PAGE = sp that has     *)
(* taken n batches and has the next one in flight, the order in which the  *)
(* fetches of that batch settle kept in arrivals.                          *)

Min(a, b) == IF a <= b THEN a ELSE b

LoadedLinks == {<<>>, <<UrlA>>, <<UrlB, UrlA>>}

InitBatch ==
  /\ CONCURRENCY \in 1..MaxConcurrency
  /\ progressFile = Absent
  /\ pc = "fetching"
  /\ site = NoSite
  /\ call = NoCall
  /\ \E sp \in 0..1, n \in 0..1, links \in LoadedLinks :
       /\ sp + n * CONCURRENCY <= MAX_PAGE
       /\ envStartPage = Some(sp)
       /\ startPage = sp
       /\ firstRequested = Some(sp)
       /\ batchCount = n
       /\ start = sp + n * CONCURRENCY
       /\ lastProcessedPage = sp + n * CONCURRENCY - 1
       /\ batchPages = BatchPages(sp + n * CONCURRENCY, CONCURRENCY)
       /\ fetches = [p \in Range(BatchPages(sp + n * CONCURRENCY, CONCURRENCY)) |->
                       [attempt |-> 0, result |-> Pending]]
       /\ emptyPagesInARow \in 0..Min(n * CONCURRENCY, EMPTY_PAGES_BEFORE_STOP - 1)
       /\ linkFile = IF links = <<>> THEN Absent ELSE writeLinks(links)
       /\ allLinks = links
       /\ uniqueLinks = Range(links)
  /\ blockedCount = 0
  /\ fullBlockRun = 0
  /\ shouldStop = FALSE
  /\ stopReason = ""
  /\ arrivals = <<>>
  /\ skipped = {}
  /\ AppendIdle

(* One request of one fetchWithRetry call of the batch, as in Attempt; a   *)
(* call that returns puts its page at the end of arrivals.                 *)
Settle(p, response) ==
  /\ AttemptStep(p, response)
  /\ arrivals' = IF fetches'[p].result.status # "pending"
                 THEN Append(arrivals, p) ELSE arrivals
  /\ UNCHANGED <<CONCURRENCY, progressFile, linkFile, pc, envStartPage, uniqueLinks,
                 allLinks, startPage, start, lastProcessedPage, blockedCount,
                 emptyPagesInARow, batchCount, shouldStop, batchPages,
                 firstRequested, stopReason, fullBlockRun,
                 call, site, skipped, appendVars>>

(* The aggregation of the batch, as in Aggregate; the pages it skips as    *)
(* blocked are kept in skipped.                                            *)
AggregateBatch ==
  /\ AggregateStep
  /\ skipped' = skipped \cup
       SkippedPages(SortedResults(batchPages, fetches),
                    ProcessResults(SortedResults(batchPages, fetches), Memory))

(* The batch, and the checkpoint that follows it when one is due or the    *)
(* loop is over.                                                           *)
NextBatch ==
  \/ \E p \in 0..MAX_PAGE, response \in SessionResponses : Settle(p, response)
  \/ AggregateBatch
  \/ WriteProgress
  \/ WriteLinks

SpecBatch == InitBatch /\ [][NextBatch]_vars

----------------------------------------------------------------------------
(* One session of width 1 against a fixed listing: from page 0 on a run of *)
(* pages with links, then pages without any; no file to start from.  A     *)
(* request that is not the last of its retry budget can fail or be denied. *)

UrlC == "https://www.justice.gov/c.pdf"

LinkedHrefLists == {<<"/a.pdf">>,
                    <<"https://www.justice.gov/a.pdf", "b.pdf">>,
                    <<UrlC>>}

Listings ==
  {listing \in [0..MAX_PAGE -> LinkedHrefLists \cup {<<>>}] :
     \A p, q \in 0..MAX_PAGE : (p < q /\ listing[p] = <<>>) => listing[q] = <<>>}

InitListing ==
  /\ CONCURRENCY = 1
  /\ progressFile = Absent
  /\ linkFile = Absent
  /\ pc = "idle"
  /\ FreshMemory
  /\ site \in Listings
  /\ call = NoCall
  /\ AppendIdle

TransientResponses ==
  {TransportException, Response(500, NoHtml),
   Response(200, Html({"Access Denied"}, <<>>))}

ListingResponses ==
  TransientResponses \cup {Response(200, Html({}, h)) : h \in LinkedHrefLists \cup {<<>>}}

(* One request of the fetchWithRetry call of page p, served by the listing *)
Serve(p, response) ==
  /\ p \in DOMAIN fetches
  /\ \/ response = Response(200, Html({}, site[p]))
     \/ response \in TransientResponses /\ fetches[p].attempt < MAX_RETRIES
  /\ Attempt(p, response)

NextListing ==
  \/ Load
  \/ Enter
  \/ \E p \in 0..MAX_PAGE, response \in ListingResponses : Serve(p, response)
  \/ Aggregate
  \/ WriteProgress
  \/ WriteLinks
  \/ Wake

SpecListing == InitListing /\ [][NextListing]_vars

----------------------------------------------------------------------------
(* The append-based scraper src/tests/doj-pdf-scraper.spec.ts.  The first  *)
(* three bounds scale down constants of the source (954, 15 and 5); the    *)
(* loop of the source has no page ceiling, MaxAppendPage gives it one.     *)
START_PAGE == 1
TABS_PER_BROWSER == 1
maxEmptyPages == 2
MaxAppendPage == 4
MaxSignals == 2

NUM_BROWSERS == 2

TOTAL_CONCURRENCY == TABS_PER_BROWSER * NUM_BROWSERS

(* Lines 21-31: the lines that are not blank, as they are, in a Set; no    *)
(* file is the empty Set.                                                  *)
loadExistingLinks(file) == {line \in Range(file) : Trim(line) # ""}

(* Lines 33-42 *)
loadExistingFailedPages(file) == IF file = Absent THEN {} ELSE Range(TheValue(file))

RECURSIVE SortedPages(_)
SortedPages(pages) ==
  IF pages = {} THEN <<>>
  ELSE LET least == CHOOSE p \in pages : \A q \in pages : p <= q IN
       <<least>> \o SortedPages(pages \ {least})

(* Lines 44-50: the file is written only when the set is not empty *)
saveFailedPages(failed, file) ==
  IF Cardinality(failed) > 0 THEN Some(SortedPages(failed)) ELSE file

(* The listing pages the server serves to scrapePage: the hrefs are the    *)
(* absolute URLs the browser gives for the anchors.                        *)
AppendHrefLists == {<<>>, <<UrlA>>, <<UrlB, UrlB>>}

(* What scrapePage resolves to (lines 52-80) *)
ScrapeOutcomes ==
  {[settled |-> TRUE, hrefs |-> <<>>, error |-> TRUE]}
    \cup {[settled |-> TRUE, hrefs |-> h, error |-> FALSE] : h \in AppendHrefLists}

Unsettled == [settled |-> FALSE, hrefs |-> <<>>, error |-> FALSE]

(* batchResults.sort((a, b) => a.pageNum - b.pageNum) of line 218 *)
SortedBatch(promises) ==
  LET pages == SortedPages(DOMAIN promises) IN
  [i \in 1..Len(pages) |->
     [pageNum |-> pages[i], hrefs |-> promises[pages[i]].hrefs,
      error |-> promises[pages[i]].error]]

(* Variant: a page that succeeds stays in the set *)
Succeeded_NoDelete(failed, pageNum) == failed

(* Line 224: failedPages.delete(result.pageNum) *)
Succeeded(failed, pageNum) == failed \ {pageNum}

(* Lines 218-241: the loop over the sorted results, from the result at the *)
(* head up to the next await (the fs.appendFile of line 230, newLinks not  *)
(* empty) or to the end of the loop (newLinks empty).                      *)
RECURSIVE TakeResults(_, _)
TakeResults(results, acc) ==
  IF results = <<>> THEN [acc EXCEPT !.resultsLeft = <<>>, !.newLinks = <<>>]
  ELSE
    LET result == Head(results) IN
    IF result.error
    THEN TakeResults(Tail(results), [acc EXCEPT !.failedPages = @ \cup {result.pageNum}])
    ELSE
      LET scraped == [acc EXCEPT !.failedPages = Succeeded(@, result.pageNum)] IN
      IF Len(result.hrefs) > 0
      THEN LET fresh == SelectSeq(result.hrefs,
                                  LAMBDA href : href \notin acc.existingLinks) IN
           IF Len(fresh) > 0
           THEN [scraped EXCEPT !.newLinks = fresh, !.resultsLeft = Tail(results)]
           ELSE TakeResults(Tail(results), [scraped EXCEPT !.allEmpty = FALSE])
      ELSE TakeResults(Tail(results), scraped)

(* The test-doj session is not running *)
SessionIdle ==
  /\ CONCURRENCY = 1
  /\ progressFile = Absent
  /\ linkFile = Absent
  /\ pc = "idle"
  /\ FreshMemory
  /\ site = NoSite
  /\ call = NoCall

InitAppend ==
  /\ SessionIdle
  /\ outputFile \in {<<>>, <<UrlA>>}
  /\ failedPagesFile = Absent
  /\ summaryFile = Null
  /\ apc = "start"
  /\ existingLinkSet = {}
  /\ failedPages = {}
  /\ lastCompletedPage = START_PAGE - 1
  /\ currentPage = START_PAGE
  /\ consecutiveEmptyPages = 0
  /\ completed = FALSE
  /\ allPromises = NoPromises
  /\ resultsLeft = <<>>
  /\ allEmpty = TRUE
  /\ newLinks = <<>>
  /\ handlers = <<>>
  /\ summaries = <<>>
  /\ loadedFailed = {}
  /\ lastOutcome = NoOutcomes

(* Positions at which the process runs with its abort handler registered   *)
(* (lines 131-287)                                                         *)
AlivePcs == {"ready", "scraping", "appending", "sleeping", "saveSummary", "cleanup"}

(* Lines 131-197: handlers registered, the two files loaded, the browser   *)
(* contexts and tabs opened.                                               *)
AppendLoad ==
  /\ apc = "start"
  /\ apc' = "ready"
  /\ existingLinkSet' = loadExistingLinks(outputFile)
  /\ failedPages' = failedPages \cup loadExistingFailedPages(failedPagesFile)
  /\ loadedFailed' = loadExistingFailedPages(failedPagesFile)
  /\ currentPage' = START_PAGE
  /\ consecutiveEmptyPages' = 0
  /\ UNCHANGED <<outputFile, failedPagesFile, summaryFile, lastCompletedPage,
                 completed, allPromises, resultsLeft, allEmpty, newLinks, handlers,
                 summaries, lastOutcome>>
  /\ UNCHANGED <<sessionVars, call>>

(* The first position of the cursor whose batch goes beyond MaxAppendPage: *)
(* of the positions from there on the model keeps this one.                *)
TailPage ==
  CHOOSE c \in START_PAGE..(MaxAppendPage + TOTAL_CONCURRENCY) :
    /\ (c - START_PAGE) % TOTAL_CONCURRENCY = 0
    /\ c + TOTAL_CONCURRENCY - 1 > MaxAppendPage
    /\ c = START_PAGE \/ c - 1 <= MaxAppendPage

(* Line 257: currentPage += TOTAL_CONCURRENCY *)
Advance(page) ==
  IF page >= TailPage THEN TailPage ELSE page + TOTAL_CONCURRENCY

(* Line 199, and what follows it up to the next await: the dispatch of a   *)
(* batch (lines 203-214) or, the loop being over, completed = true and the *)
(* call of saveSummary up to its fs.writeFile (lines 262-263, 107-122).    *)
(* Batches are dispatched up to the page given.                            *)
IterateUpTo(lastPage) ==
  /\ apc \in {"ready", "sleeping"}
  /\ IF consecutiveEmptyPages < maxEmptyPages
     THEN /\ currentPage + TOTAL_CONCURRENCY - 1 <= lastPage
          /\ allPromises' = [p \in currentPage..(currentPage + TOTAL_CONCURRENCY - 1) |->
                               Unsettled]
          /\ apc' = "scraping"
          /\ UNCHANGED <<completed, summaries>>
     ELSE /\ completed' = TRUE
          /\ summaries' = Append(summaries, "COMPLETED")
          /\ apc' = "saveSummary"
          /\ UNCHANGED allPromises
  /\ UNCHANGED <<outputFile, failedPagesFile, summaryFile, existingLinkSet,
                 failedPages, lastCompletedPage, currentPage, consecutiveEmptyPages,
                 resultsLeft, allEmpty, newLinks, handlers, loadedFailed, lastOutcome>>
  /\ UNCHANGED <<sessionVars, call>>

Iterate == IterateUpTo(MaxAppendPage)

(* scrapePage of one page of the batch resolves (lines 52-80) *)
ScrapePage(p, outcome) ==
  /\ apc = "scraping"
  /\ p \in DOMAIN allPromises
  /\ ~allPromises[p].settled
  /\ allPromises' = [allPromises EXCEPT ![p] = outcome]
  /\ UNCHANGED <<outputFile, failedPagesFile, summaryFile, apc, existingLinkSet,
                 failedPages, lastCompletedPage, currentPage, consecutiveEmptyPages,
                 completed, resultsLeft, allEmpty, newLinks, handlers, summaries,
                 loadedFailed, lastOutcome>>
  /\ UNCHANGED <<sessionVars, call>>

(* The aggregation loop has run up to an await (acc.newLinks is what       *)
(* fs.appendFile is writing) or to its end; after its end, lines 243-258.  *)
LoopRanTo(acc) ==
  /\ failedPages' = acc.failedPages
  /\ resultsLeft' = acc.resultsLeft
  /\ newLinks' = acc.newLinks
  /\ IF acc.newLinks # <<>>
     THEN /\ apc' = "appending"
          /\ allEmpty' = acc.allEmpty
          /\ UNCHANGED <<lastCompletedPage, currentPage, consecutiveEmptyPages,
                         allPromises, lastOutcome>>
     ELSE /\ apc' = "sleeping"
          /\ allEmpty' = TRUE
          /\ lastCompletedPage' = CHOOSE p \in DOMAIN allPromises :
                                     \A q \in DOMAIN allPromises : q <= p
          /\ consecutiveEmptyPages' =
               IF acc.allEmpty /\ ~(\E p \in DOMAIN allPromises : allPromises[p].error)
               THEN consecutiveEmptyPages + 1 ELSE 0
          /\ currentPage' = Advance(currentPage)
          /\ lastOutcome' = [p \in DOMAIN lastOutcome \cup DOMAIN allPromises |->
                               IF p \in DOMAIN allPromises
                               THEN IF allPromises[p].error THEN "error" ELSE "ok"
                               ELSE lastOutcome[p]]
          /\ allPromises' = NoPromises

(* Promise.all has resolved (line 214): the loop starts (lines 217-218) *)
Results ==
  /\ apc = "scraping"
  /\ \A p \in DOMAIN allPromises : allPromises[p].settled
  /\ LoopRanTo(TakeResults(SortedBatch(allPromises),
                           [failedPages |-> failedPages, existingLinks |-> existingLinkSet,
                            allEmpty |-> TRUE, resultsLeft |-> <<>>, newLinks |-> <<>>]))
  /\ UNCHANGED <<outputFile, failedPagesFile, summaryFile, existingLinkSet, completed,
                 handlers, summaries, loadedFailed>>
  /\ UNCHANGED <<sessionVars, call>>

(* fs.appendFile has written (line 230): lines 231-236 and the loop again *)
Appended ==
  /\ apc = "appending"
  /\ outputFile' = outputFile \o newLinks
  /\ existingLinkSet' = existingLinkSet \cup Range(newLinks)
  /\ LoopRanTo(TakeResults(resultsLeft,
                           [failedPages |-> failedPages,
                            existingLinks |-> existingLinkSet \cup Range(newLinks),
                            allEmpty |-> FALSE, resultsLeft |-> <<>>, newLinks |-> <<>>]))
  /\ UNCHANGED <<failedPagesFile, summaryFile, completed, handlers, summaries,
                 loadedFailed>>
  /\ UNCHANGED <<sessionVars, call>>

(* fs.appendFile rejects: the finally block finds completed false and      *)
(* calls saveSummary (lines 265-270).                                      *)
AppendFails ==
  /\ apc = "appending"
  /\ apc' = "saveSummary"
  /\ summaries' = Append(summaries, "INTERRUPTED")
  /\ resultsLeft' = <<>>
  /\ newLinks' = <<>>
  /\ allPromises' = NoPromises
  /\ UNCHANGED <<outputFile, failedPagesFile, summaryFile, existingLinkSet,
                 failedPages, lastCompletedPage, currentPage, consecutiveEmptyPages,
                 completed, allEmpty, handlers, loadedFailed, lastOutcome>>
  /\ UNCHANGED <<sessionVars, call>>

(* saveSummary of the test body, from its fs.writeFile on (lines 122-123): *)
(* the summary is written, then the failed pages.                          *)
SummarySaved ==
  /\ apc = "saveSummary"
  /\ apc' = "cleanup"
  /\ summaryFile' = Some(IF completed THEN "COMPLETED" ELSE "INTERRUPTED")
  /\ failedPagesFile' = saveFailedPages(failedPages, failedPagesFile)
  /\ UNCHANGED <<outputFile, existingLinkSet, failedPages, lastCompletedPage,
                 currentPage, consecutiveEmptyPages, completed, allPromises,
                 resultsLeft, allEmpty, newLinks, handlers, summaries, loadedFailed,
                 lastOutcome>>
  /\ UNCHANGED <<sessionVars, call>>

(* Lines 277-287: tabs and contexts closed, the abort handler removed *)
Cleanup ==
  /\ apc = "cleanup"
  /\ apc' = "ended"
  /\ UNCHANGED <<outputFile, failedPagesFile, summaryFile, existingLinkSet,
                 failedPages, lastCompletedPage, currentPage, consecutiveEmptyPages,
                 completed, allPromises, resultsLeft, allEmpty, newLinks, handlers,
                 summaries, loadedFailed, lastOutcome>>
  /\ UNCHANGED <<sessionVars, call>>

(* SIGINT or SIGTERM while the handler is registered: abortHandler calls   *)
(* saveSummary, which runs up to its fs.writeFile (lines 127-128, 107-122) *)
Signal ==
  /\ apc \in AlivePcs
  /\ Len(handlers) < MaxSignals
  /\ handlers' = Append(handlers, "saveSummary")
  /\ summaries' = Append(summaries, "ABORTED")
  /\ UNCHANGED <<outputFile, failedPagesFile, summaryFile, apc, existingLinkSet,
                 failedPages, lastCompletedPage, currentPage, consecutiveEmptyPages,
                 completed, allPromises, resultsLeft, allEmpty, newLinks,
                 loadedFailed, lastOutcome>>
  /\ UNCHANGED <<sessionVars, call>>

(* saveSummary of an abortHandler, from its fs.writeFile on (lines 122-123) *)
HandlerSaved(h) ==
  /\ apc \in AlivePcs \cup {"ended"}
  /\ h \in DOMAIN handlers
  /\ handlers[h] = "saveSummary"
  /\ handlers' = [handlers EXCEPT ![h] = "exit"]
  /\ summaryFile' = Some("ABORTED")
  /\ failedPagesFile' = saveFailedPages(failedPages, failedPagesFile)
  /\ UNCHANGED <<outputFile, apc, existingLinkSet, failedPages, lastCompletedPage,
                 currentPage, consecutiveEmptyPages, completed, allPromises,
                 resultsLeft, allEmpty, newLinks, summaries, loadedFailed,
                 lastOutcome>>
  /\ UNCHANGED <<sessionVars, call>>

(* process.exit(0) of an abortHandler (line 129): the process is gone, with *)
(* the batch in flight and the handlers under way.                         *)
HandlerExit(h) ==
  /\ apc \in AlivePcs \cup {"ended"}
  /\ h \in DOMAIN handlers
  /\ handlers[h] = "exit"
  /\ apc' = "exited"
  /\ handlers' = <<>>
  /\ allPromises' = NoPromises
  /\ resultsLeft' = <<>>
  /\ newLinks' = <<>>
  /\ allEmpty' = TRUE
  /\ UNCHANGED <<outputFile, failedPagesFile, summaryFile, existingLinkSet,
                 failedPages, lastCompletedPage, currentPage, consecutiveEmptyPages,
                 completed, summaries, loadedFailed, lastOutcome>>
  /\ UNCHANGED <<sessionVars, call>>

(* The next run of the test: a new process, the files as they were left *)
AppendRestart ==
  /\ apc \in {"ended", "exited"}
  /\ apc' = "start"
  /\ existingLinkSet' = {}
  /\ failedPages' = {}
  /\ lastCompletedPage' = START_PAGE - 1
  /\ currentPage' = START_PAGE
  /\ consecutiveEmptyPages' = 0
  /\ completed' = FALSE
  /\ allPromises' = NoPromises
  /\ resultsLeft' = <<>>
  /\ allEmpty' = TRUE
  /\ newLinks' = <<>>
  /\ handlers' = <<>>
  /\ summaries' = <<>>
  /\ loadedFailed' = {}
  /\ lastOutcome' = NoOutcomes
  /\ UNCHANGED <<outputFile, failedPagesFile, summaryFile>>
  /\ UNCHANGED <<sessionVars, call>>

NextAppend ==
  \/ AppendLoad
  \/ Iterate
  \/ \E p \in START_PAGE..MaxAppendPage, outcome \in ScrapeOutcomes : ScrapePage(p, outcome)
  \/ Results
  \/ Appended
  \/ AppendFails
  \/ SummarySaved
  \/ Cleanup
  \/ Signal
  \/ \E h \in 1..MaxSignals : HandlerSaved(h)
  \/ \E h \in 1..MaxSignals : HandlerExit(h)
  \/ AppendRestart

SpecAppend == InitAppend /\ [][NextAppend]_vars

----------------------------------------------------------------------------
(* The loop of the append-based scraper left to run: no signal, and the    *)
(* batches go on beyond MaxAppendPage, where every page has no link or     *)
(* ends in error.  Every scrapePage resolves and every step that can be    *)
(* taken is taken in the end.                                              *)

IterateOn == IterateUpTo(TailPage + TOTAL_CONCURRENCY - 1)

ScrapeTail(p, outcome) ==
  /\ p >= TailPage => outcome.hrefs = <<>>
  /\ ScrapePage(p, outcome)

NextAppendLoop ==
  \/ AppendLoad
  \/ IterateOn
  \/ \E p \in START_PAGE..(TailPage + TOTAL_CONCURRENCY - 1), outcome \in ScrapeOutcomes :
       ScrapeTail(p, outcome)
  \/ Results
  \/ Appended
  \/ SummarySaved
  \/ Cleanup

SpecAppendLoop == InitAppend /\ [][NextAppendLoop]_vars /\ WF_vars(NextAppendLoop)

----------------------------------------------------------------------------
(* Properties of fetchWithRetry, under SpecRetry *)

Resolved == call.result.status # "pending"

LastEntry == call.log[Len(call.log)]

HasMarker(response) == ~response.threw /\ response.html.markers # {}

RetryableStatus(response) ==
  /\ ~response.threw
  /\ ~HasMarker(response)
  /\ response.status \in {403, 429} \cup {st \in Statuses : st >= 500}

OkUnblocked(response) ==
  /\ ~response.threw
  /\ ~HasMarker(response)
  /\ response.status \in 200..299

(* C6: a call with retry budget R makes at most R+1 requests, whatever    *)
(* the responses are, and has returned once it has made R+1; blocked and   *)
(* error attempts use up the same budget.                                  *)
C6_AttemptsWithinBudget ==
  /\ Len(call.log) <= call.retries + 1
  /\ Len(call.log) = call.retries + 1 => Resolved
  /\ Len(call.log) > 0 /\ ~Resolved => call.attempt = Len(call.log)

C6_Witness ==
  /\ Resolved
  /\ call.retries >= 2
  /\ Len(call.log) = call.retries + 1
  /\ \E i, j \in 1..Len(call.log) :
       call.log[i].ladder = "blocked" /\ call.log[j].ladder = "error"

(* C7: the call returns blocked exactly when the last request of an       *)
(* exhausted budget had a denial marker; it returns error when the budget  *)
(* is exhausted on an exception or a 403/429/5xx status; it returns ok     *)
(* exactly on the first response that is OK and has no marker; and every   *)
(* response is classified by itself, whatever came before it.              *)
C7_FinalClassification ==
  /\ Resolved =>
       /\ call.result.status = "blocked" <=>
            (HasMarker(LastEntry.response) /\ Len(call.log) = call.retries + 1)
       /\ (Len(call.log) = call.retries + 1
            /\ (LastEntry.response.threw \/ RetryableStatus(LastEntry.response)))
            => call.result.status = "error"
       /\ call.result.status = "ok" <=> OkUnblocked(LastEntry.response)
       /\ call.result.status = "ok" => call.result.html = LastEntry.response.html
  /\ \A i \in 1..Len(call.log) :
       /\ OkUnblocked(call.log[i].response) => i = Len(call.log)
       /\ call.log[i].ladder =
            (IF HasMarker(call.log[i].response) THEN "blocked"
             ELSE IF OkUnblocked(call.log[i].response) THEN "ok" ELSE "error")

C7_Witness ==
  /\ Resolved
  /\ call.result.status = "blocked"
  /\ Len(call.log) = 3
  /\ call.log[1].ladder = "blocked"
  /\ call.log[2].ladder = "error"

(* C8: a response whose body has a denial marker is put on the blocked     *)
(* ladder whatever its status: it is never returned as ok and never        *)
(* counted as an error, and the sleep after it is the linear block         *)
(* backoff.                                                                *)
C8_MarkerMeansBlocked ==
  /\ \A i \in 1..Len(call.log) :
       HasMarker(call.log[i].response) =>
         /\ call.log[i].ladder = "blocked"
         /\ (i < Len(call.log) \/ ~Resolved) =>
              call.log[i].delay = BLOCKED_BACKOFF_MS * i
  /\ Resolved /\ HasMarker(LastEntry.response) => call.result.status = "blocked"

C8_Witness ==
  /\ Resolved
  /\ Len(call.log) = 2
  /\ call.log[1].response.status = 403 /\ HasMarker(call.log[1].response)
  /\ call.log[2].response.status = 200
  /\ call.log[2].response.html.markers = {"Reference #"}

----------------------------------------------------------------------------
(* Properties of the session, under Spec *)

AllResolved == \A p \in DOMAIN fetches : fetches[p].result.status # "pending"

AllBlocked == \A p \in DOMAIN fetches : fetches[p].result.status = "blocked"

FileLines(file) == SelectSeq(TheValue(file), LAMBDA l : l # "")

(* The hrefs the resolved pages of the batch in flight offer *)
OfferedHrefs ==
  UNION {Range(fetches[p].result.html.hrefs) :
           p \in {q \in DOMAIN fetches : fetches[q].result.status = "ok"}}

KnownOnly == \A href \in OfferedHrefs : ResolveUrl(href) \in uniqueLinks

(* C1: the list of links in memory, and every link file the session has   *)
(* written, holds no URL twice, the list and the set hold the same URLs,   *)
(* and a batch that offers only URLs already in the set changes neither.   *)
C1_NoDuplicateLinks ==
  /\ [](/\ NoDup(allLinks)
        /\ Range(allLinks) = uniqueLinks
        /\ (linkFile # Absent /\ linkFile # Some(ForeignLinkFile))
             => NoDup(FileLines(linkFile)))
  /\ [][(pc = "fetching" /\ KnownOnly)
          => (uniqueLinks' = uniqueLinks /\ allLinks' = allLinks)]_vars

(* A session that loaded UrlA from the file has processed one page with    *)
(* links, all of them UrlA again, and is writing its final checkpoint.     *)
C1_Witness ==
  /\ pc = "finalLinks"
  /\ linkFile = Some(ForeignLinkFile)
  /\ CONCURRENCY = 1
  /\ batchCount = 1
  /\ lastProcessedPage = startPage
  /\ emptyPagesInARow = 0
  /\ allLinks = <<UrlA>>

(* C2: whenever the process has ended, normally, on a stop condition, on   *)
(* a signal or on a fault in the batch loop, the two files hold the last   *)
(* processed page and the accumulated links of the session.                *)
C2_FlushedOnEveryExit ==
  pc \in TerminalPcs =>
    /\ progressFile = writeProgress([lastProcessedPage |-> lastProcessedPage,
                                     totalLinksFound |-> Cardinality(uniqueLinks)])
    /\ linkFile = writeLinks(allLinks)

PersistedPage == TheValue(readProgress(progressFile)).lastProcessedPage

(* C3: a session that finds lastProcessedPage = K in the progress file     *)
(* and has no START_PAGE override opens page K+1 first, starts its batch   *)
(* loop at K+1, and starts with lastProcessedPage = K in memory.           *)
C3_ResumeAfterLastPage ==
  (pc \in {"goto", "fetching"} /\ batchCount = 0
     /\ envStartPage = Null /\ readProgress(progressFile) # Null)
  => /\ firstRequested = Some(PersistedPage + 1)
     /\ lastProcessedPage = PersistedPage
     /\ start = PersistedPage + 1
     /\ pc = "fetching" => batchPages[1] = PersistedPage + 1

C3_Witness ==
  /\ pc = "fetching"
  /\ batchCount = 0
  /\ envStartPage = Null
  /\ readProgress(progressFile) # Null
  /\ PersistedPage >= 1
  /\ batchPages[1] = PersistedPage + 1

DefaultStart == 0

(* C4, as claimed: the start page is the maximum of the override, the      *)
(* persisted lastProcessedPage + 1 and the default start.                  *)
C4_StartIsMaximum ==
  pc = "goto" =>
    startPage = Max(Max(IF envStartPage # Null THEN TheValue(envStartPage) ELSE DefaultStart,
                        IF readProgress(progressFile) # Null THEN PersistedPage + 1 ELSE DefaultStart),
                    DefaultStart)

(* C4, amended: the start page is the override when there is one, else     *)
(* the persisted lastProcessedPage + 1 when there is a progress record     *)
(* that can be read, else the default start 0.                             *)
C4_StartPageRule ==
  pc = "goto" =>
    startPage = (IF envStartPage # Null THEN TheValue(envStartPage)
                 ELSE IF readProgress(progressFile) # Null THEN PersistedPage + 1
                 ELSE DefaultStart)

C4_Witness ==
  /\ pc = "goto"
  /\ envStartPage # Null
  /\ readProgress(progressFile) # Null
  /\ TheValue(envStartPage) < PersistedPage
  /\ startPage = TheValue(envStartPage)

(* C5: with a START_PAGE override the session opens exactly the override   *)
(* page and starts its loop there, also when the override is lower than    *)
(* the persisted lastProcessedPage + 1.                                    *)
C5_OverrideWins ==
  (pc \in {"goto", "fetching"} /\ batchCount = 0 /\ envStartPage # Null)
  => /\ startPage = TheValue(envStartPage)
     /\ firstRequested = envStartPage
     /\ start = TheValue(envStartPage)
     /\ lastProcessedPage = TheValue(envStartPage) - 1
     /\ pc = "fetching" => batchPages[1] = TheValue(envStartPage)

C5_Witness ==
  /\ pc = "fetching"
  /\ batchCount = 0
  /\ envStartPage # Null
  /\ readProgress(progressFile) # Null
  /\ TheValue(envStartPage) < PersistedPage + 1
  /\ batchPages[1] = TheValue(envStartPage)

C10_StopsOnThirdBlockedBatch ==
  /\ stopReason = "STOPPED_BLOCKED" => fullBlockRun = MAX_BLOCKED_BEFORE_STOP
  /\ fullBlockRun <= MAX_BLOCKED_BEFORE_STOP
  /\ fullBlockRun = MAX_BLOCKED_BEFORE_STOP => stopReason = "STOPPED_BLOCKED"

(* C11: whatever the batch width, the aggregation of a batch in which at   *)
(* least one page did not resolve to blocked, a partially blocked batch    *)
(* included, leaves the counter of fully blocked batches in a row at zero. *)
C11_UnblockedPageResetsCount ==
  [][(pc = "fetching" /\ AllResolved /\ ~AllBlocked /\ pc' # "killed")
       => blockedCount' = 0]_vars

(* Pages of the batch in flight by their final outcome *)
PagesWith(status) == {p \in DOMAIN fetches : fetches[p].result.status = status}

EmptyOkPages == {p \in PagesWith("ok") : fetches[p].result.html.hrefs = <<>>}

LinkedOkPages == {p \in PagesWith("ok") : fetches[p].result.html.hrefs # <<>>}

(* C13: the aggregation of a batch whose pages all ended blocked or in     *)
(* error leaves the counter of empty pages in a row as it is; the counter  *)
(* grows only when a page fetched successfully with zero links is in the   *)
(* batch, and goes back to zero only when a page with a link is.           *)
C13_BlockedAndErrorPagesSkipped ==
  [][(pc = "fetching" /\ AllResolved /\ pc' # "killed")
       => /\ (EmptyOkPages = {} /\ LinkedOkPages = {})
               => emptyPagesInARow' = emptyPagesInARow
          /\ emptyPagesInARow' > emptyPagesInARow => EmptyOkPages # {}
          /\ (emptyPagesInARow > 0 /\ emptyPagesInARow' = 0) => LinkedOkPages # {}]_vars

(* The run of pages fetched successfully with zero links, after the pages  *)
(* of the batch up to the last one the loop has taken; a page with a link  *)
(* ends the run, a blocked or error page is not part of it.                *)
RECURSIVE EmptyRunAfter(_, _, _, _)
EmptyRunAfter(run, pages, fetchOf, upTo) ==
  IF pages = <<>> \/ Head(pages) > upTo THEN run
  ELSE LET result == fetchOf[Head(pages)].result IN
       EmptyRunAfter(IF result.status # "ok" THEN run
                     ELSE IF result.html.hrefs = <<>> THEN run + 1
                     ELSE 0,
                     Tail(pages), fetchOf, upTo)

(* C12: when the counter of empty pages is the number of pages yielding    *)
(* zero links in a row, it still is after the aggregation of a batch, a    *)
(* page with a link taking it back to zero; the session stops as empty     *)
(* exactly when that run reaches EMPTY_PAGES_BEFORE_STOP, not before, and  *)
(* no page is aggregated after it.                                         *)
C12_StopsOnThresholdEmptyPage ==
  [][(pc = "fetching" /\ AllResolved /\ ~AllBlocked /\ pc' # "killed")
       => LET run == EmptyRunAfter(emptyPagesInARow, batchPages, fetches,
                                   lastProcessedPage') IN
          /\ emptyPagesInARow < EMPTY_PAGES_BEFORE_STOP
          /\ emptyPagesInARow' = run
          /\ run <= EMPTY_PAGES_BEFORE_STOP
          /\ stopReason' = "STOPPED_EMPTY" <=> run = EMPTY_PAGES_BEFORE_STOP]_vars

(* The pages of the batch taken one after the other in ascending order,    *)
(* each as a batch of its own, until the loop stops.                       *)
RECURSIVE OneByOne(_, _, _)
OneByOne(pages, fetchOf, acc) ==
  IF pages = {} \/ acc.shouldStop \/ acc.threw THEN acc
  ELSE LET p == CHOOSE q \in pages : \A r \in pages : q <= r IN
       OneByOne(pages \ {p}, fetchOf,
                ProcessResults(<<PageResult(p, fetchOf[p].result)>>, acc))

(* C14: in whatever order the fetches of a batch have settled, its         *)
(* aggregation leaves the counter of empty pages, the set and the list of  *)
(* links and lastProcessedPage as taking its pages one by one in ascending *)
(* order does, and stops as empty exactly when that does.                  *)
C14_AsIfInPageOrder ==
  [][(pc = "fetching" /\ AllResolved /\ pc' # "killed")
       => LET sequential == OneByOne(DOMAIN fetches, fetches, Memory) IN
          /\ emptyPagesInARow' = sequential.emptyPagesInARow
          /\ uniqueLinks' = sequential.uniqueLinks
          /\ allLinks' = sequential.allLinks
          /\ lastProcessedPage' = sequential.lastProcessedPage
          /\ ~AllBlocked => shouldStop' = sequential.shouldStop
          /\ (pc' = "failed") = sequential.threw]_vars

(* Page 1 settled before page 0; page 0 had the two new links, page 1 had  *)
(* none, and the batch has been aggregated.                                *)
C14_Witness ==
  /\ pc # "fetching"
  /\ arrivals = <<1, 0>>
  /\ batchCount = 1
  /\ lastProcessedPage = 1
  /\ emptyPagesInARow = 1
  /\ allLinks = <<UrlA, UrlB>>

(* C15: reading the file that writeLinks makes of the links in memory      *)
(* gives the same URLs in the same order, the empty list included, and so  *)
(* the same set.                                                           *)
C15_FlushReloadRoundTrip ==
  /\ readExistingLinks(writeLinks(allLinks)) = allLinks
  /\ Range(readExistingLinks(writeLinks(allLinks))) = uniqueLinks

(* A session has loaded the two links, in their order, from the file an    *)
(* earlier session wrote.                                                  *)
C15_Witness ==
  /\ pc = "goto"
  /\ allLinks = <<UrlA, UrlB>>
  /\ linkFile = writeLinks(<<UrlA, UrlB>>)
  /\ progressFile # Absent

DurableLinks(file) == Range(readExistingLinks(file))

(* C16: whatever step the process takes, a checkpoint write that is cut    *)
(* short included, each of the two files holds afterwards what it held     *)
(* before or the complete new content, the progress file is never a        *)
(* partial record, and no link the link file held is missing from it.      *)
C16_WritesAreAtomic ==
  [][/\ progressFile' \in {progressFile,
                            writeProgress([lastProcessedPage |-> lastProcessedPage,
                                           totalLinksFound |-> Cardinality(uniqueLinks)])}
     /\ progressFile' # Some(TruncatedJson)
     /\ linkFile' \in {linkFile, writeLinks(allLinks)}
     /\ DurableLinks(linkFile) \subseteq DurableLinks(linkFile')]_vars

MalformedOffered == \E href \in OfferedHrefs : ResolveUrl(href) = InvalidURL

(* C19: the aggregation of a batch in which a page offers a malformed      *)
(* href raises no error: the session goes on to its next batch, sleep or   *)
(* checkpoint, and the malformed href adds no link.                        *)
C19_MalformedHrefDropped ==
  [][(pc = "fetching" /\ AllResolved /\ MalformedOffered /\ pc' # "killed")
       => /\ pc' # "failed"
          /\ InvalidURL \notin uniqueLinks'
          /\ InvalidURL \notin Range(allLinks')]_vars

(* C23: the batch in flight is the pages from the cursor P up to           *)
(* min(P + CONCURRENCY - 1, MAX_PAGE), each with a fetch of its own; a     *)
(* batch is dispatched only when no fetch is in flight and the batch       *)
(* before it has been aggregated; and the batch dispatched after a batch   *)
(* that was aggregated, whatever its pages resolved to, starts             *)
(* CONCURRENCY pages further on.                                           *)
C23_BatchesInTurn ==
  /\ [](pc = "fetching" =>
          /\ batchPages = [i \in 1..(Min(start + CONCURRENCY - 1, MAX_PAGE) - start + 1) |->
                             start + i - 1]
          /\ DOMAIN fetches = start..Min(start + CONCURRENCY - 1, MAX_PAGE))
  /\ [][(pc # "fetching" /\ pc' = "fetching")
          => /\ pc \in {"goto", "delay", "blockedSleep"}
             /\ fetches = NoFetches
             /\ \A p \in DOMAIN fetches' : fetches'[p].result.status = "pending"
             /\ pc = "delay" => /\ start' = start + CONCURRENCY
                                /\ batchPages'[1] = batchPages[1] + CONCURRENCY]_vars
  /\ [][(pc = "fetching" /\ ~AllResolved /\ pc' # "killed")
          => (pc' = "fetching" /\ batchPages' = batchPages /\ start' = start)]_vars

(* Of the batch of pages 1 and 2, page 2 ended blocked and page 1 did not; *)
(* the next batch, cut at the page ceiling, is in flight.                  *)
C23_Witness ==
  /\ pc = "fetching"
  /\ CONCURRENCY = 2
  /\ startPage = MAX_PAGE - 2
  /\ batchCount = 1
  /\ lastProcessedPage = MAX_PAGE - 2
  /\ start = MAX_PAGE
  /\ batchPages = <<MAX_PAGE>>

(* C25: wherever the process can end the files can be resumed from: when  *)
(* saveCheckpoint has written the progress record and not yet the links,   *)
(* the link file holds every link found up to the page just recorded; and  *)
(* when the final checkpoint is complete, totalLinksFound of the record is *)
(* the number of URLs in the link file.                                    *)
C25_ResumableAtEveryCrashPoint ==
  /\ pc \in {"ckptLinks", "finalLinks"} => uniqueLinks \subseteq DurableLinks(linkFile)
  /\ pc = "done" =>
       TheValue(progressFile).totalLinksFound = Len(readExistingLinks(linkFile))

(* C26: the aggregation of a batch that is not fully blocked counts one    *)
(* batch and goes on to a checkpoint exactly when the count is a multiple  *)
(* of CHECKPOINT_INTERVAL; a fully blocked batch is not counted and brings *)
(* no checkpoint; and while the count stands at a multiple of the interval *)
(* the two files hold the last processed page and the links of memory, so  *)
(* that what is in memory only comes from fewer than CHECKPOINT_INTERVAL   *)
(* batches, or from that many while their checkpoint is being written.     *)
C26_CheckpointEveryInterval ==
  /\ [][(pc = "fetching" /\ AllResolved /\ pc' \notin {"killed", "failed"})
          => IF AllBlocked
             THEN batchCount' = batchCount /\ pc' # "ckptProgress"
             ELSE /\ batchCount' = batchCount + 1
                  /\ pc' = "ckptProgress" <=> batchCount' % CHECKPOINT_INTERVAL = 0]_vars
  /\ []((batchCount > 0 /\ batchCount % CHECKPOINT_INTERVAL = 0
           /\ pc \in {"delay", "fetching", "blockedSleep"})
         => /\ progressFile = writeProgress([lastProcessedPage |-> lastProcessedPage,
                                             totalLinksFound |-> Cardinality(uniqueLinks)])
            /\ linkFile = writeLinks(allLinks))

(* The periodic checkpoint after the CHECKPOINT_INTERVAL-th counted batch  *)
(* has been written; a fully blocked batch had come before that batch.     *)
C26_Witness ==
  /\ pc = "delay"
  /\ batchCount = CHECKPOINT_INTERVAL
  /\ blockedCount = 1
  /\ uniqueLinks # {}
  /\ progressFile = writeProgress([lastProcessedPage |-> lastProcessedPage,
                                   totalLinksFound |-> Cardinality(uniqueLinks)])
  /\ linkFile = writeLinks(allLinks)

(* The highest page the session has dispatched; the page before the start *)
(* page when it has dispatched none.                                       *)
HighestDispatched ==
  IF batchPages = <<>> THEN startPage - 1 ELSE batchPages[Len(batchPages)]

(* C28: a step of a running session keeps every URL of the set in the set  *)
(* and every URL of the list at its place in the list, the URLs loaded at  *)
(* startup included; a link file it writes holds every URL of the set;     *)
(* lastProcessedPage does not decrease, and it is never above the highest  *)
(* page the session has dispatched.                                        *)
C28_LinkStoreOnlyGrows ==
  /\ [][(pc \in RunningPcs /\ pc' # "killed")
          => /\ uniqueLinks \subseteq uniqueLinks'
             /\ Len(allLinks) <= Len(allLinks')
             /\ SubSeq(allLinks', 1, Len(allLinks)) = allLinks
             /\ linkFile' # linkFile => uniqueLinks \subseteq DurableLinks(linkFile')
             /\ lastProcessedPage' >= lastProcessedPage]_vars
  /\ [](pc \in RunningPcs => lastProcessedPage <= HighestDispatched)

(* A session that had UrlA in its list from the start has admitted UrlB    *)
(* in its second batch and written its final checkpoint.                   *)
C28_Witness ==
  /\ pc = "done"
  /\ batchCount = 2
  /\ allLinks = <<UrlA, UrlB>>
  /\ linkFile = writeLinks(<<UrlA, UrlB>>)
  /\ TheValue(progressFile).totalLinksFound = 2
  /\ lastProcessedPage = HighestDispatched

(* C24, under SpecBatch: the page a checkpoint has written to the progress *)
(* file is below every page that the aggregation of a batch not fully      *)
(* blocked has skipped as blocked, so that a session resuming from the     *)
(* file without override starts at or before each of those pages.          *)
C24_BlockedPagesRetried ==
  readProgress(progressFile) # Null =>
    \A p \in skipped : StartPage(Null, readProgress(progressFile)) <= p

----------------------------------------------------------------------------
(* Properties of the session against a fixed listing, under SpecListing *)

(* The first page from the start page on that has no link *)
FirstEmptyPage ==
  IF \E p \in startPage..MAX_PAGE : site[p] = <<>>
  THEN CHOOSE p \in startPage..MAX_PAGE :
         site[p] = <<>> /\ \A q \in startPage..(p - 1) : site[q] # <<>>
  ELSE MAX_PAGE + 1

(* The distinct links of the pages before it *)
LinksFound ==
  UNION {{ResolveUrl(href) : href \in Range(site[p])} :
           p \in startPage..(FirstEmptyPage - 1)}

(* C21: a session of width 1 whose pages have links up to some page and    *)
(* none from there on, the threshold page being within the page range,     *)
(* ends as STOPPED_EMPTY; the progress file then holds the page of the     *)
(* EMPTY_PAGES_BEFORE_STOP-th empty page and the number of distinct links  *)
(* found, and the link file holds exactly those links.                     *)
C21_EmptyRunScenario ==
  (pc = "done" /\ FirstEmptyPage + EMPTY_PAGES_BEFORE_STOP - 1 <= MAX_PAGE)
  => /\ stopReason = "STOPPED_EMPTY"
     /\ progressFile =
          writeProgress([lastProcessedPage |-> FirstEmptyPage + EMPTY_PAGES_BEFORE_STOP - 1,
                         totalLinksFound |-> Cardinality(LinksFound)])
     /\ Len(FileLines(linkFile)) = Cardinality(LinksFound)
     /\ Range(FileLines(linkFile)) = LinksFound

(* Pages 0 and 1 had three distinct links between them, pages 2 and 3 had  *)
(* none, and the session has ended.                                        *)
C21_Witness ==
  /\ pc = "done"
  /\ startPage = 0
  /\ FirstEmptyPage = 2
  /\ Cardinality(LinksFound) = 3
  /\ stopReason = "STOPPED_EMPTY"
  /\ TheValue(progressFile).lastProcessedPage = 3
  /\ Len(FileLines(linkFile)) = 3

----------------------------------------------------------------------------
(* Properties of the append-based scraper, under SpecAppend *)

(* C17: when a run has ended, by completion, by a fault or by a signal,    *)
(* saveSummary has been executed exactly once in it, also when a signal    *)
(* came while the run was completing or when more than one signal came.    *)
C17_SummarySavedOnce ==
  apc \in {"ended", "exited"} => Len(summaries) = 1

Signalled == handlers # <<>>

(* C18: a step taken after a signal was delivered and before the process   *)
(* has exited dispatches no batch, admits no link to the Set and appends   *)
(* none to the output file.                                                *)
C18_NothingNewAfterSignal ==
  [][(Signalled /\ apc \in AlivePcs)
       => /\ ~(apc # "scraping" /\ apc' = "scraping")
          /\ existingLinkSet' = existingLinkSet
          /\ outputFile' = outputFile]_vars

(* The pages loaded as failed or ended in error in a batch of the run,     *)
(* less those that a batch of the run has scraped successfully; the loop   *)
(* takes every page once in a run.                                         *)
FailedByHistory ==
  {p \in loadedFailed \cup DOMAIN lastOutcome :
     p \in DOMAIN lastOutcome => lastOutcome[p] = "error"}

(* C20: between the batches, failedPages holds exactly the pages loaded as *)
(* failed at startup or ended in error in a batch that no aggregation has  *)
(* since seen succeed.                                                     *)
C20_FailedPagesBookkeeping ==
  apc \in {"ready", "scraping", "sleeping"} => failedPages = FailedByHistory

(* Page 1, loaded as failed, has been scraped successfully and page 2 has  *)
(* ended in error in the batch just aggregated.                            *)
C20_Witness ==
  /\ apc = "sleeping"
  /\ loadedFailed = {1}
  /\ DOMAIN lastOutcome = {1, 2}
  /\ lastOutcome[1] = "ok"
  /\ lastOutcome[2] = "error"
  /\ failedPages = {2}

(* C22: a step never adds to the output file a line the file holds         *)
(* already, whether it was there at startup or came from an earlier page,  *)
(* and never adds the same line twice, as when a page has one href on two  *)
(* anchors.                                                                *)
C22_NeverAppendedTwice ==
  [][\A i \in (Len(outputFile) + 1)..Len(outputFile') :
       \A j \in 1..(i - 1) : outputFile'[j] # outputFile'[i]]_vars

(* The batches of the append-based scraper: the batch in flight is the     *)
(* TOTAL_CONCURRENCY pages from the cursor on, it is dispatched when no    *)
(* page of the batch before it is left to scrape or to aggregate, and the  *)
(* cursor moves on by TOTAL_CONCURRENCY whatever the pages resolved to.    *)
AppendBatchesInTurn ==
  /\ [](apc \in {"scraping", "appending"} =>
          DOMAIN allPromises = currentPage..(currentPage + TOTAL_CONCURRENCY - 1))
  /\ [][(apc # "scraping" /\ apc' = "scraping")
          => /\ allPromises = NoPromises
             /\ resultsLeft = <<>>
             /\ \A p \in DOMAIN allPromises' : ~allPromises'[p].settled]_vars
  /\ [][(apc \in {"scraping", "appending"} /\ apc' = "sleeping")
          => currentPage' = currentPage + TOTAL_CONCURRENCY]_vars

----------------------------------------------------------------------------
(* Termination *)

(* C27, for doj-pdf-scraper under SpecAppendLoop: when from some page on   *)
(* every page has no link, some or all of them ending in error, the loop   *)
(* ends and the run with it.                                               *)
C27_LoopEnds == <>(apc = "ended")

(* The same for test-doj under SpecSession, whatever the requests are      *)
(* answered: the session ends, its final checkpoint written or, on a       *)
(* malformed href, with the error thrown in the loop.                      *)
SessionEnds == <>(pc \in {"done", "failed"})

====
